---- MODULE Spec2Model ----
(***************************************************************************)
(* Model of scripts/audit-important.py: the CSS "!important" audit.        *)
(* Text is modelled at character level: a string is a sequence of          *)
(* one-character strings, so that counting braces, stripping, substring    *)
(* tests and the declaration regex are computed as the code computes them. *)
(***************************************************************************)
EXTENDS Integers, Sequences, FiniteSets, TLC

(***************************************************************************)
(* Python string primitives used by the script.                            *)
(***************************************************************************)

\* str.strip() / regex \s : the whitespace characters
Whitespace == {" ", "\t", "\r", "\f"}

\* needle in s for strings
Contains(s, needle) ==
    \E i \in 1..(Len(s) - Len(needle) + 1) :
        \A k \in 1..Len(needle) : s[i + k - 1] = needle[k]

\* s.count(c) for a one-character c
Count(s, c) == Cardinality({i \in 1..Len(s) : s[i] = c})

\* s.find(c) for a one-character c: 0-based index of the first occurrence, -1 when absent
Find(s, c) ==
    IF \E i \in 1..Len(s) : s[i] = c
    THEN (CHOOSE i \in 1..Len(s) : s[i] = c /\ \A j \in 1..(i - 1) : s[j] # c) - 1
    ELSE -1

\* s[:n]
Prefix(s, n) == SubSeq(s, 1, n)

\* s.strip()
Strip(s) ==
    LET keep == {i \in 1..Len(s) : s[i] \notin Whitespace}
    IN  IF keep = {} THEN <<>>
        ELSE SubSeq(s, CHOOSE i \in keep : \A j \in keep : i <= j,
                       CHOOSE i \in keep : \A j \in keep : j <= i)

\* s.rstrip(c) for a one-character c
RStripChar(s, c) ==
    LET keep == {i \in 1..Len(s) : s[i] # c}
    IN  IF keep = {} THEN <<>>
        ELSE SubSeq(s, 1, CHOOSE i \in keep : \A j \in keep : j <= i)

\* s.startswith(p)
StartsWith(s, p) == Len(s) >= Len(p) /\ SubSeq(s, 1, Len(p)) = p

\* s.endswith(p)
EndsWith(s, p) == Len(s) >= Len(p) /\ SubSeq(s, Len(s) - Len(p) + 1, Len(s)) = p

\* any(p in selector for p in patterns)
AnyIn(patterns, selector) == \E i \in 1..Len(patterns) : Contains(selector, patterns[i])

(***************************************************************************)
(* Classifier: categorize_selector.                                        *)
(***************************************************************************)

\* '[data-shift-mode', '[data-gossamer-mode', '[data-chronologue-mode', '[data-mode=', '.rt-mode-', '.rt-shift-mode', '.rt-gossamer-', '.rt-runtime-mode'
mode_patterns ==
    << <<"[", "d", "a", "t", "a", "-", "s", "h", "i", "f", "t", "-", "m", "o", "d", "e">>,
       <<"[", "d", "a", "t", "a", "-", "g", "o", "s", "s", "a", "m", "e", "r", "-", "m", "o", "d", "e">>,
       <<"[", "d", "a", "t", "a", "-", "c", "h", "r", "o", "n", "o", "l", "o", "g", "u", "e", "-", "m", "o", "d", "e">>,
       <<"[", "d", "a", "t", "a", "-", "m", "o", "d", "e", "=">>,
       <<".", "r", "t", "-", "m", "o", "d", "e", "-">>,
       <<".", "r", "t", "-", "s", "h", "i", "f", "t", "-", "m", "o", "d", "e">>,
       <<".", "r", "t", "-", "g", "o", "s", "s", "a", "m", "e", "r", "-">>,
       <<".", "r", "t", "-", "r", "u", "n", "t", "i", "m", "e", "-", "m", "o", "d", "e">> >>
\* '.rt-selected', '.rt-non-selected', '.rt-search-result', '.rt-scene-is-open', '.rt-has-edits', '.rt-missing-when', '.rt-grade-', '.rt-global-fade'
state_patterns ==
    << <<".", "r", "t", "-", "s", "e", "l", "e", "c", "t", "e", "d">>,
       <<".", "r", "t", "-", "n", "o", "n", "-", "s", "e", "l", "e", "c", "t", "e", "d">>,
       <<".", "r", "t", "-", "s", "e", "a", "r", "c", "h", "-", "r", "e", "s", "u", "l", "t">>,
       <<".", "r", "t", "-", "s", "c", "e", "n", "e", "-", "i", "s", "-", "o", "p", "e", "n">>,
       <<".", "r", "t", "-", "h", "a", "s", "-", "e", "d", "i", "t", "s">>,
       <<".", "r", "t", "-", "m", "i", "s", "s", "i", "n", "g", "-", "w", "h", "e", "n">>,
       <<".", "r", "t", "-", "g", "r", "a", "d", "e", "-">>,
       <<".", "r", "t", "-", "g", "l", "o", "b", "a", "l", "-", "f", "a", "d", "e">> >>
\* '.rt-input-error', '.rt-setting-input-success', '.rt-setting-input-error', '.rt-flash-'
validation_patterns ==
    << <<".", "r", "t", "-", "i", "n", "p", "u", "t", "-", "e", "r", "r", "o", "r">>,
       <<".", "r", "t", "-", "s", "e", "t", "t", "i", "n", "g", "-", "i", "n", "p", "u", "t", "-", "s", "u", "c", "c", "e", "s", "s">>,
       <<".", "r", "t", "-", "s", "e", "t", "t", "i", "n", "g", "-", "i", "n", "p", "u", "t", "-", "e", "r", "r", "o", "r">>,
       <<".", "r", "t", "-", "f", "l", "a", "s", "h", "-">> >>
\* '.setting-item', '.modal-content', '.modal-title', '.dropdown', '.markdown-preview'
obsidian_patterns ==
    << <<".", "s", "e", "t", "t", "i", "n", "g", "-", "i", "t", "e", "m">>,
       <<".", "m", "o", "d", "a", "l", "-", "c", "o", "n", "t", "e", "n", "t">>,
       <<".", "m", "o", "d", "a", "l", "-", "t", "i", "t", "l", "e">>,
       <<".", "d", "r", "o", "p", "d", "o", "w", "n">>,
       <<".", "m", "a", "r", "k", "d", "o", "w", "n", "-", "p", "r", "e", "v", "i", "e", "w">> >>

\* '1_obsidian_resets'
K_obsidian_resets == <<"1", "_", "o", "b", "s", "i", "d", "i", "a", "n", "_", "r", "e", "s", "e", "t", "s">>
\* '2_validation_states'
K_validation_states == <<"2", "_", "v", "a", "l", "i", "d", "a", "t", "i", "o", "n", "_", "s", "t", "a", "t", "e", "s">>
\* '3_hover_states'
K_hover_states == <<"3", "_", "h", "o", "v", "e", "r", "_", "s", "t", "a", "t", "e", "s">>
\* '4_selection_states'
K_selection_states == <<"4", "_", "s", "e", "l", "e", "c", "t", "i", "o", "n", "_", "s", "t", "a", "t", "e", "s">>
\* '5_mode_overrides'
K_mode_overrides == <<"5", "_", "m", "o", "d", "e", "_", "o", "v", "e", "r", "r", "i", "d", "e", "s">>
\* '6_subplot_colors'
K_subplot_colors == <<"6", "_", "s", "u", "b", "p", "l", "o", "t", "_", "c", "o", "l", "o", "r", "s">>
\* '7_other'
K_other == <<"7", "_", "o", "t", "h", "e", "r">>

\* the category keys categorize_selector can return
CategoryKeys ==
    {K_obsidian_resets, K_validation_states, K_hover_states, K_selection_states,
     K_mode_overrides, K_subplot_colors, K_other}

\* categorize_selector with the selection-state test moved after the hover test
categorize_selector_hover_first(selector, property_value) ==
    IF Contains(selector, <<"[", "d", "a", "t", "a", "-", "s", "u", "b", "p", "l", "o", "t", "-", "i", "d", "x">>)
    THEN K_subplot_colors
    ELSE IF AnyIn(mode_patterns, selector) THEN K_mode_overrides
    ELSE IF \/ Contains(selector, <<":", "h", "o", "v", "e", "r">>)
            \/ Contains(selector, <<".", "s", "c", "e", "n", "e", "-", "h", "o", "v", "e", "r">>)
            \/ Contains(selector, <<".", "r", "t", "-", "h", "o", "v", "e", "r">>)
         THEN K_hover_states
    ELSE IF AnyIn(state_patterns, selector) THEN K_selection_states
    ELSE IF AnyIn(validation_patterns, selector) THEN K_validation_states
    ELSE IF AnyIn(obsidian_patterns, selector) THEN K_obsidian_resets
    ELSE K_other

\* categorize_selector(selector, property_value): the chain of substring tests, in source
\* order; the tests are made on selector itself (selector_lower is computed but unused)
categorize_selector(selector, property_value) ==
    IF Contains(selector, <<"[", "d", "a", "t", "a", "-", "s", "u", "b", "p", "l", "o", "t", "-", "i", "d", "x">>)
    THEN K_subplot_colors
    ELSE IF AnyIn(mode_patterns, selector) THEN K_mode_overrides
    ELSE IF AnyIn(state_patterns, selector) THEN K_selection_states
    ELSE IF \/ Contains(selector, <<":", "h", "o", "v", "e", "r">>)
            \/ Contains(selector, <<".", "s", "c", "e", "n", "e", "-", "h", "o", "v", "e", "r">>)
            \/ Contains(selector, <<".", "r", "t", "-", "h", "o", "v", "e", "r">>)
         THEN K_hover_states
    ELSE IF AnyIn(validation_patterns, selector) THEN K_validation_states
    ELSE IF AnyIn(obsidian_patterns, selector) THEN K_obsidian_resets
    ELSE K_other

(***************************************************************************)
(* Declaration Extractor: the regular expression                           *)
(*     ([a-z-]+)\s*:\s*(.+?)!important      with re.IGNORECASE             *)
(* matched by re.search, i.e. by ordered backtracking from the leftmost    *)
(* start position.                                                         *)
(***************************************************************************)

LowerCase ==
    {"a", "b", "c", "d", "e", "f", "g", "h", "i", "j", "k", "l", "m",
     "n", "o", "p", "q", "r", "s", "t", "u", "v", "w", "x", "y", "z"}

UpperToLower ==
    [c \in {"A", "B", "C", "D", "E", "F", "G", "H", "I", "J", "K", "L", "M",
            "N", "O", "P", "Q", "R", "S", "T", "U", "V", "W", "X", "Y", "Z"} |->
        CASE c = "A" -> "a" [] c = "B" -> "b" [] c = "C" -> "c" [] c = "D" -> "d"
          [] c = "E" -> "e" [] c = "F" -> "f" [] c = "G" -> "g" [] c = "H" -> "h"
          [] c = "I" -> "i" [] c = "J" -> "j" [] c = "K" -> "k" [] c = "L" -> "l"
          [] c = "M" -> "m" [] c = "N" -> "n" [] c = "O" -> "o" [] c = "P" -> "p"
          [] c = "Q" -> "q" [] c = "R" -> "r" [] c = "S" -> "s" [] c = "T" -> "t"
          [] c = "U" -> "u" [] c = "V" -> "v" [] c = "W" -> "w" [] c = "X" -> "x"
          [] c = "Y" -> "y" [] c = "Z" -> "z"]

\* case folding of one character under re.IGNORECASE
ToLower(c) == IF c \in DOMAIN UpperToLower THEN UpperToLower[c] ELSE c

\* the character class [a-z-]
PropCharClass == LowerCase \cup {"-"}

\* the character class [a-z-] under re.IGNORECASE
IsPropChar(c) == ToLower(c) \in PropCharClass

\* '!important'
ImportantMarker == <<"!", "i", "m", "p", "o", "r", "t", "a", "n", "t">>

\* length of the longest run of property characters of s that starts at position i
PropRun(s, i) ==
    LET stops == {j \in i..Len(s) : ~IsPropChar(s[j])}
    IN  IF stops = {} THEN Len(s) - i + 1
        ELSE (CHOOSE j \in stops : \A k \in stops : j <= k) - i

\* length of the longest run of whitespace of s that starts at position i
SpaceRun(s, i) ==
    LET stops == {j \in i..Len(s) : s[j] \notin Whitespace}
    IN  IF stops = {} THEN Len(s) - i + 1
        ELSE (CHOOSE j \in stops : \A k \in stops : j <= k) - i

\* the literal !important (case-insensitively) stands at position i of s
MarkerAt(s, i) ==
    /\ i + Len(ImportantMarker) - 1 <= Len(s)
    /\ \A k \in 1..Len(ImportantMarker) : ToLower(s[i + k - 1]) = ImportantMarker[k]

\* every way the pattern matches s from start position s0, as <<n1, k1, k2, v>>:
\* n1 property characters, k1 blanks, ':', k2 blanks, v value characters, the marker
ReParses(s, s0) ==
    UNION { UNION { UNION {
        { <<n1, k1, k2, v>> :
            v \in { w \in 1..(Len(s) - (s0 + n1 + k1 + k2)) :
                      /\ \A j \in 1..w : s[s0 + n1 + k1 + k2 + j] # "\n"
                      /\ MarkerAt(s, s0 + n1 + k1 + k2 + w + 1) } }
        : k2 \in 0..SpaceRun(s, s0 + n1 + k1 + 1) }
        : k1 \in { k \in 0..SpaceRun(s, s0 + n1) :
                      s0 + n1 + k <= Len(s) /\ s[s0 + n1 + k] = ":" } }
        : n1 \in 1..PropRun(s, s0) }

\* backtracking order: ([a-z-]+) and both \s* are greedy, (.+?) is lazy
RePrefers(t, u) ==
    \/ t[1] > u[1]
    \/ t[1] = u[1] /\ t[2] > u[2]
    \/ t[1] = u[1] /\ t[2] = u[2] /\ t[3] > u[3]
    \/ t[1] = u[1] /\ t[2] = u[2] /\ t[3] = u[3] /\ t[4] <= u[4]

NoMatch == [matched |-> FALSE, group1 |-> <<>>, group2 |-> <<>>]

\* re.search(r'([a-z-]+)\s*:\s*(.+?)!important', line, re.IGNORECASE)
re_search(line) ==
    LET starts == {s0 \in 1..Len(line) : ReParses(line, s0) # {}}
    IN  IF starts = {} THEN NoMatch
        ELSE LET s0 == CHOOSE i \in starts : \A j \in starts : i <= j
                 P  == ReParses(line, s0)
                 t  == CHOOSE x \in P : \A y \in P : RePrefers(x, y)
                 g2 == s0 + t[1] + t[2] + t[3] + 1
             IN  [matched |-> TRUE,
                  group1  |-> SubSeq(line, s0, s0 + t[1] - 1),
                  group2  |-> SubSeq(line, g2, g2 + t[4] - 1)]

(***************************************************************************)
(* Selector Tracker and Declaration Extractor: one iteration of the loop   *)
(* of parse_css_file.  line_num is the 1-based number of the line; the     *)
(* Python list index b (0-based) is element b + 1 of the sequence.         *)
(***************************************************************************)

Max(a, b) == IF a >= b THEN a ELSE b

\* content.split('\n')
RECURSIVE SplitLines(_)
SplitLines(content) ==
    LET nl == {i \in 1..Len(content) : content[i] = "\n"}
    IN  IF nl = {} THEN <<content>>
        ELSE LET i == CHOOSE j \in nl : \A k \in nl : j <= k
             IN  <<SubSeq(content, 1, i - 1)>> \o SplitLines(SubSeq(content, i + 1, Len(content)))

\* the first argument of max(0, line_num - 10) in the selector look-back
SelectorLookBack == 10

\* the first argument of max(0, line_num - 20) in the fallback look-back
FallbackLookBack == 20

\* range(line_num - 2, max(0, line_num - window), -1): the indices visited, as a set;
\* the loop visits them from the largest down
BackRange(line_num, window) == (Max(0, line_num - window) + 1)..(line_num - 2)

\* the test of the selector look-back on one earlier line
IsSelectorLine(prev_line) ==
    /\ prev_line # <<>>
    /\ ~StartsWith(prev_line, <<"/", "*">>)
    /\ ~StartsWith(prev_line, <<"*">>)
    /\ ~Contains(prev_line, <<"{">>)
    /\ ~Contains(prev_line, <<"}">>)

\* lines 117-134: the selector and its start line after the brace test of this line
TrackSelector(lines, line_num, current_selector, selector_start_line, brace_depth) ==
    LET line      == lines[line_num]
        unchanged == [current_selector |-> current_selector,
                      selector_start_line |-> selector_start_line]
        brace_pos == Find(line, "{")
    IN  IF Count(line, "{") > 0
        THEN IF brace_pos > 0
             THEN LET potential_selector == Strip(Prefix(line, brace_pos))
                  IN  IF potential_selector # <<>> /\ ~StartsWith(potential_selector, <<"/", "*">>)
                      THEN [current_selector |-> potential_selector,
                            selector_start_line |-> line_num]
                      ELSE unchanged
             ELSE IF brace_depth = 0
                  THEN LET hits == {b \in BackRange(line_num, SelectorLookBack) :
                                        IsSelectorLine(Strip(lines[b + 1]))}
                       IN  IF hits = {} THEN unchanged
                           ELSE LET back_line == CHOOSE b \in hits : \A c \in hits : c <= b
                                IN  [current_selector |-> Strip(lines[back_line + 1]),
                                     selector_start_line |-> back_line + 1]
                  ELSE unchanged
        ELSE unchanged

\* lines 152-162: the selector recovered by looking back for a line with '{'
FallbackSelector(lines, line_num) ==
    LET hits == {b \in BackRange(line_num, FallbackLookBack) :
                     LET prev == Strip(lines[b + 1])
                     IN  EndsWith(prev, <<"{">>) \/ Contains(prev, <<"{">>)}
    IN  IF hits = {} THEN <<>>
        ELSE LET back_line == CHOOSE b \in hits : \A c \in hits : c <= b
                 prev      == Strip(lines[back_line + 1])
             IN  IF EndsWith(prev, <<"{">>)
                 THEN Strip(Prefix(prev, Len(prev) - 1))
                 ELSE Strip(Prefix(prev, Find(prev, "{")))

\* the test for the marker left out: every line goes to the regular expression
HasMarker_unchecked(line) == TRUE

\* '!important' in line
HasMarker(line) == Contains(line, ImportantMarker)

\* lines 143-173: the records this line adds (none or one), given the selector
\* the tracker holds after the line
ExtractDeclaration(file_name, lines, line_num, current_selector) ==
    LET line  == lines[line_num]
        match == re_search(line)
    IN  IF HasMarker(line) /\ match.matched
        THEN LET prop     == Strip(match.group1)
                 value    == Strip(RStripChar(Strip(match.group2), ";"))
                 selector == IF current_selector # <<>> THEN current_selector
                             ELSE FallbackSelector(lines, line_num)
             IN  << [file        |-> file_name,
                     line_number |-> line_num,
                     selector    |-> selector,
                     property    |-> prop,
                     value       |-> value,
                     category    |-> categorize_selector(selector, prop \o <<":", " ">> \o value)] >>
        ELSE <<>>

(***************************************************************************)
(* Python's ordering of strings (by code point), used by sorted().         *)
(***************************************************************************)

\* the printable ASCII characters in code-point order, from 32 (space); the entry
\* "grave" holds the place of code point 96, which no text of the model contains
Ascii ==
    << " ", "!", "\"", "#", "$", "%", "&", "'", "(", ")", "*", "+", ",", "-", ".", "/",
       "0", "1", "2", "3", "4", "5", "6", "7", "8", "9", ":", ";", "<", "=", ">", "?",
       "@", "A", "B", "C", "D", "E", "F", "G", "H", "I", "J", "K", "L", "M", "N", "O",
       "P", "Q", "R", "S", "T", "U", "V", "W", "X", "Y", "Z", "[", "\\", "]", "^", "_",
       "grave", "a", "b", "c", "d", "e", "f", "g", "h", "i", "j", "k", "l", "m", "n", "o",
       "p", "q", "r", "s", "t", "u", "v", "w", "x", "y", "z", "{", "|", "}", "~" >>

\* ord(c)
Ord(c) == 31 + (CHOOSE i \in 1..Len(Ascii) : Ascii[i] = c)

\* a < b for strings
StrLess(a, b) ==
    \E i \in 1..(Len(a) + 1) :
        /\ i <= Len(b)
        /\ \A j \in 1..(i - 1) : a[j] = b[j]
        /\ (i = Len(a) + 1 \/ Ord(a[i]) < Ord(b[i]))

\* sorted(names) for a set of distinct strings
RECURSIVE SortedStrings(_)
SortedStrings(S) ==
    IF S = {} THEN <<>>
    ELSE LET least == CHOOSE a \in S : \A b \in S \ {a} : StrLess(a, b)
         IN  <<least>> \o SortedStrings(S \ {least})

(***************************************************************************)
(* Aggregator & Reporter: the pure parts of main.                          *)
(***************************************************************************)

\* the category_names dictionary
category_names ==
    [k \in CategoryKeys |->
        CASE k = K_obsidian_resets   -> "Category 1: Obsidian Resets"
          [] k = K_validation_states -> "Category 2: Validation States"
          [] k = K_hover_states      -> "Category 3: Hover States"
          [] k = K_selection_states  -> "Category 4: Selection States"
          [] k = K_mode_overrides    -> "Category 5: Mode Overrides"
          [] k = K_subplot_colors    -> "Category 6: Subplot Colors"
          [] k = K_other             -> "Category 7: Other/Uncategorized"]

\* category_names.get(cat_key, cat_key)
CategoryName(cat_key) == IF cat_key \in DOMAIN category_names THEN category_names[cat_key] ELSE cat_key

\* a defaultdict(list) is a sequence of [key, items] entries in insertion order
Keys(groups) == [i \in 1..Len(groups) |-> groups[i].key]

\* groups[key]
Items(groups, key) == groups[CHOOSE i \in 1..Len(groups) : groups[i].key = key].items

\* groups[key] = [d]: the entry is replaced instead of extended
AddToGroup_overwrite(groups, key, d) ==
    IF \E i \in 1..Len(groups) : groups[i].key = key
    THEN LET i == CHOOSE j \in 1..Len(groups) : groups[j].key = key
         IN  [groups EXCEPT ![i].items = <<d>>]
    ELSE Append(groups, [key |-> key, items |-> <<d>>])

\* groups[key].append(d)
AddToGroup(groups, key, d) ==
    IF \E i \in 1..Len(groups) : groups[i].key = key
    THEN LET i == CHOOSE j \in 1..Len(groups) : groups[j].key = key
         IN  [groups EXCEPT ![i].items = Append(@, d)]
    ELSE Append(groups, [key |-> key, items |-> <<d>>])

\* for decl in all_declarations: by_category[decl.category].append(decl)
RECURSIVE GroupByCategory(_)
GroupByCategory(decls) ==
    IF decls = <<>> THEN <<>>
    ELSE LET d == decls[Len(decls)]
         IN  AddToGroup(GroupByCategory(SubSeq(decls, 1, Len(decls) - 1)), d.category, d)

\* for d in decls: by_file[d.file].append(d)
RECURSIVE GroupByFile(_)
GroupByFile(decls) ==
    IF decls = <<>> THEN <<>>
    ELSE LET d == decls[Len(decls)]
         IN  AddToGroup(GroupByFile(SubSeq(decls, 1, Len(decls) - 1)), d.file, d)

\* list(by_category.keys()): the keys in the order the scan discovered them
UnsortedKeys(groups) == Keys(groups)

\* sorted(by_category.keys())
SortedKeys(groups) == SortedStrings({groups[i].key : i \in 1..Len(groups)})

\* sorted(file_decls, key=lambda x: x.line_number): a stable sort
RECURSIVE SortedByLine(_)
SortedByLine(decls) ==
    IF decls = <<>> THEN <<>>
    ELSE LET i == CHOOSE j \in 1..Len(decls) :
                      /\ \A k \in 1..Len(decls) : decls[j].line_number <= decls[k].line_number
                      /\ \A k \in 1..(j - 1) : decls[k].line_number # decls[j].line_number
         IN  <<decls[i]>> \o SortedByLine(SubSeq(decls, 1, i - 1) \o SubSeq(decls, i + 1, Len(decls)))

\* lines 219-230: the summary block printed for each category, in sorted key order
SummaryBlocks(by_cat) ==
    LET keys == SortedKeys(by_cat)
    IN  [i \in 1..Len(keys) |->
            LET decls   == Items(by_cat, keys[i])
                by_file == GroupByFile(decls)
                fnames  == SortedKeys(by_file)
            IN  <<"summary_category", CategoryName(keys[i]), Len(decls),
                  [j \in 1..Len(fnames) |-> <<fnames[j], Len(Items(by_file, fnames[j]))>>]>>]

\* lines 233-249: the report object
BuildReport(all, by_cat) ==
    LET keys == SortedKeys(by_cat)
    IN  [total        |-> Len(all),
         by_category  |-> [i \in 1..Len(keys) |->
                              [key   |-> keys[i],
                               name  |-> CategoryName(keys[i]),
                               count |-> Len(Items(by_cat, keys[i])),
                               files |-> GroupByFile(Items(by_cat, keys[i]))]],
         declarations |-> all]

\* d.selector[:60] + '...' if len(d.selector) > 60 else d.selector
SelectorShort(selector) ==
    IF Len(selector) > 60 THEN Prefix(selector, 60) \o <<".", ".", ".">> ELSE selector

\* f"{d.value[:30]}..."
ValueShort(value) ==
    (IF Len(value) > 30 THEN Prefix(value, 30) ELSE value) \o <<".", ".", ".">>

\* lines 263-282: the detail block printed for each category, in sorted key order
DetailBlocks(by_cat) ==
    LET keys == SortedKeys(by_cat)
    IN  [i \in 1..Len(keys) |->
            LET decls   == Items(by_cat, keys[i])
                by_file == GroupByFile(decls)
                fnames  == SortedKeys(by_file)
            IN  <<"detail_category", CategoryName(keys[i]), Len(decls),
                  [j \in 1..Len(fnames) |->
                      LET ds == SortedByLine(Items(by_file, fnames[j]))
                      IN  <<fnames[j],
                            [k \in 1..Len(ds) |->
                                <<ds[k].line_number, ds[k].property,
                                  ValueShort(ds[k].value), SelectorShort(ds[k].selector)>>]>>]>>]

(***************************************************************************)
(* Inputs: the texts a style sheet can hold.                               *)
(***************************************************************************)

\* '.rt-selected { color: red!important; }'
L_rt_selected_rule == <<".", "r", "t", "-", "s", "e", "l", "e", "c", "t", "e", "d", " ", "{", " ", "c", "o", "l", "o", "r", ":", " ", "r", "e", "d", "!", "i", "m", "p", "o", "r", "t", "a", "n", "t", ";", " ", "}">>
\* '.modal-content'
L_modal_content == <<".", "m", "o", "d", "a", "l", "-", "c", "o", "n", "t", "e", "n", "t">>
\* '{'
L_open_brace == <<"{">>
\* '  padding: 0 !important;'
L_padding == <<" ", " ", "p", "a", "d", "d", "i", "n", "g", ":", " ", "0", " ", "!", "i", "m", "p", "o", "r", "t", "a", "n", "t", ";">>
\* '}'
L_close_brace == <<"}">>
\* 'color: !important;'
L_color_blank == <<"c", "o", "l", "o", "r", ":", " ", "!", "i", "m", "p", "o", "r", "t", "a", "n", "t", ";">>
\* '/* !important */'
L_comment_marker == <<"/", "*", " ", "!", "i", "m", "p", "o", "r", "t", "a", "n", "t", " ", "*", "/">>
\* '.rt-selected {'
L_rt_selected_open == <<".", "r", "t", "-", "s", "e", "l", "e", "c", "t", "e", "d", " ", "{">>
\* '.modal-content {'
L_modal_open == <<".", "m", "o", "d", "a", "l", "-", "c", "o", "n", "t", "e", "n", "t", " ", "{">>
\* 'a:hover { color: red !important; }'
L_hover_rule == <<"a", ":", "h", "o", "v", "e", "r", " ", "{", " ", "c", "o", "l", "o", "r", ":", " ", "r", "e", "d", " ", "!", "i", "m", "p", "o", "r", "t", "a", "n", "t", ";", " ", "}">>
\* 'COLOR: RED !IMPORTANT;'
L_upper_marker == <<"C", "O", "L", "O", "R", ":", " ", "R", "E", "D", " ", "!", "I", "M", "P", "O", "R", "T", "A", "N", "T", ";">>
\* ''
L_empty == <<>>

\* 'a.css', 'b.css': the names of style sheets the directory can hold
F_a == <<"a", ".", "c", "s", "s">>
F_b == <<"b", ".", "c", "s", "s">>

\* the longest style sheet of the general runs, in lines
MaxLines == 2

\* the longest style sheet of the scenario runs, in lines
MaxScenarioLines == 4

\* the lines of the general runs
Pool ==
    {L_rt_selected_open, L_modal_open, L_padding, L_close_brace,
     L_color_blank, L_comment_marker, L_upper_marker, L_empty}

\* the lines of the scenario runs
ScenarioPool ==
    {L_rt_selected_rule, L_modal_content, L_open_brace, L_padding, L_close_brace, L_empty}

FileNames == {F_a, F_b}

ScenarioFileNames == {F_a}

\* '\n'.join(ls)
RECURSIVE JoinLines(_)
JoinLines(ls) ==
    IF Len(ls) = 1 THEN ls[1]
    ELSE ls[1] \o <<"\n">> \o JoinLines(Tail(ls))

\* the file texts of 1..n lines drawn from P
Contents(P, n) == {JoinLines(ls) : ls \in UNION {[1..k -> P] : k \in 1..n}}

(***************************************************************************)
(* The run of main() as a state machine.                                   *)
(***************************************************************************)

VARIABLES
    pc,                   \* where main is: start, loop, parsing, group, write, breakdown, done, raised
    css_files,            \* sorted(styles_dir.glob('*.css')), by name
    file_idx,             \* how many files the for loop has taken
    lines,                \* parse_css_file: content.split('\n')
    line_num,             \* parse_css_file: number of the last line consumed
    current_selector,     \* parse_css_file
    brace_depth,          \* parse_css_file
    selector_start_line,  \* parse_css_file
    declarations,         \* parse_css_file: the records of the file being scanned
    all_declarations,     \* main
    by_category,          \* main: the defaultdict, in insertion order
    console,              \* what main has printed
    report_file,          \* the content of important-audit-report.json on disk
    report_writes,        \* how many times the report file has been opened for writing
    sel_in,               \* classifier runs: the selector handed to categorize_selector
    cat_out               \* classifier runs: what categorize_selector returned

vars ==
    <<pc, css_files, file_idx, lines, line_num, current_selector, brace_depth,
      selector_start_line, declarations, all_declarations, by_category, console,
      report_file, report_writes, sel_in, cat_out>>

parseVars == <<lines, line_num, current_selector, brace_depth, selector_start_line, declarations>>
catVars == <<sel_in, cat_out>>

\* the report file does not exist
Absent == [total |-> -1]

\* no category returned yet
NoCategory == <<>>

Init ==
    /\ pc = "start"
    /\ css_files = <<>>
    /\ file_idx = 0
    /\ lines = <<>>
    /\ line_num = 0
    /\ current_selector = <<>>
    /\ brace_depth = 0
    /\ selector_start_line = 0
    /\ declarations = <<>>
    /\ all_declarations = <<>>
    /\ by_category = <<>>
    /\ console = <<>>
    /\ report_file = Absent
    /\ report_writes = 0
    /\ sel_in = <<>>
    /\ cat_out = NoCategory

\* lines 183-185: the styles directory does not exist
Main_DirMissing ==
    /\ pc = "start"
    /\ console' = Append(console, <<"error_styles_directory_not_found">>)
    /\ pc' = "done"
    /\ UNCHANGED <<css_files, file_idx, parseVars, all_declarations, by_category,
                   report_file, report_writes, catVars>>

\* lines 187-191: the directory exists and holds some of the style sheets of Names
Main_ListFiles(Names) ==
    /\ pc = "start"
    /\ \E listing \in SUBSET Names :
           /\ css_files' = SortedStrings(listing)
           /\ console' = Append(console, <<"scanning", Cardinality(listing)>>)
    /\ all_declarations' = <<>>
    /\ pc' = "loop"
    /\ UNCHANGED <<file_idx, parseVars, by_category, report_file, report_writes, catVars>>

\* lines 193-194, 100-109: the loop takes the next file; it is read and split into lines
Parse_Open(Texts) ==
    /\ pc = "loop"
    /\ file_idx < Len(css_files)
    /\ \E content \in Texts : lines' = SplitLines(content)
    /\ file_idx' = file_idx + 1
    /\ declarations' = <<>>
    /\ current_selector' = <<>>
    /\ brace_depth' = 0
    /\ selector_start_line' = 0
    /\ line_num' = 0
    /\ pc' = "parsing"
    /\ UNCHANGED <<css_files, all_declarations, by_category, console,
                   report_file, report_writes, catVars>>

\* lines 102-103: open() or read() raises (OSError, UnicodeDecodeError); nothing in
\* parse_css_file or main catches it
Parse_OpenFails ==
    /\ pc = "loop"
    /\ file_idx < Len(css_files)
    /\ file_idx' = file_idx + 1
    /\ pc' = "raised"
    /\ UNCHANGED <<css_files, parseVars, all_declarations, by_category, console,
                   report_file, report_writes, catVars>>

\* lines 111-173: one iteration of the loop over the lines
Parse_Line ==
    /\ pc = "parsing"
    /\ line_num < Len(lines)
    /\ LET n            == line_num + 1
           line         == lines[n]
           open_braces  == Count(line, "{")
           close_braces == Count(line, "}")
           tracked      == TrackSelector(lines, n, current_selector, selector_start_line, brace_depth)
           depth        == brace_depth + open_braces - close_braces
           selector     == IF depth = 0 /\ close_braces > 0 THEN <<>> ELSE tracked.current_selector
       IN  /\ line_num' = n
           /\ brace_depth' = depth
           /\ current_selector' = selector
           /\ selector_start_line' = tracked.selector_start_line
           /\ declarations' = declarations \o
                  ExtractDeclaration(css_files[file_idx], lines, n, selector)
    /\ UNCHANGED <<pc, css_files, file_idx, lines, all_declarations, by_category, console,
                   report_file, report_writes, catVars>>

\* all_declarations.extend(declarations), with the two lists swapped
Extend_prepend(all, decls) == decls \o all

\* all_declarations.extend(declarations)
Extend(all, decls) == all \o decls

\* lines 175, 195-196: parse_css_file returns; main collects and prints the count
Parse_Return ==
    /\ pc = "parsing"
    /\ line_num = Len(lines)
    /\ all_declarations' = Extend(all_declarations, declarations)
    /\ console' = Append(console, <<"file", css_files[file_idx], Len(declarations)>>)
    /\ pc' = "loop"
    /\ UNCHANGED <<css_files, file_idx, parseVars, by_category, report_file, report_writes, catVars>>

\* lines 198-230: the loop is over; group by category and print the summary
Main_Group ==
    /\ pc = "loop"
    /\ file_idx = Len(css_files)
    /\ by_category' = GroupByCategory(all_declarations)
    /\ console' = console \o <<<<"total", Len(all_declarations)>>>>
                          \o SummaryBlocks(GroupByCategory(all_declarations))
    /\ pc' = "write"
    /\ UNCHANGED <<css_files, file_idx, parseVars, all_declarations,
                   report_file, report_writes, catVars>>

\* lines 233-256: build the report and write it to the report file
Main_WriteReport ==
    /\ pc = "write"
    /\ report_file' = BuildReport(all_declarations, by_category)
    /\ report_writes' = report_writes + 1
    /\ console' = Append(console, <<"report_written">>)
    /\ pc' = "breakdown"
    /\ UNCHANGED <<css_files, file_idx, parseVars, all_declarations, by_category, catVars>>

\* lines 258-282: print the detailed breakdown; main returns
Main_Breakdown ==
    /\ pc = "breakdown"
    /\ console' = console \o DetailBlocks(by_category)
    /\ pc' = "done"
    /\ UNCHANGED <<css_files, file_idx, parseVars, all_declarations, by_category,
                   report_file, report_writes, catVars>>

Next ==
    \/ Main_DirMissing
    \/ Main_ListFiles(FileNames)
    \/ Parse_Open(Contents(Pool, MaxLines))
    \/ Parse_OpenFails
    \/ Parse_Line
    \/ Parse_Return
    \/ Main_Group
    \/ Main_WriteReport
    \/ Main_Breakdown

Spec == Init /\ [][Next]_vars

\* the runs over the longer files of the scenarios, one style sheet in the directory
NextScenario ==
    \/ Main_DirMissing
    \/ Main_ListFiles(ScenarioFileNames)
    \/ Parse_Open(Contents(ScenarioPool, MaxScenarioLines))
    \/ Parse_OpenFails
    \/ Parse_Line
    \/ Parse_Return
    \/ Main_Group
    \/ Main_WriteReport
    \/ Main_Breakdown

SpecScenario == Init /\ [][NextScenario]_vars

(***************************************************************************)
(* The classifier on its own: categorize_selector applied to selectors     *)
(* built from the pattern fragments and some neutral text.                 *)
(***************************************************************************)

\* the longest selector of the classifier runs, in fragments
MaxFragments == 2

\* the fragments of the six tests, by category
PatternSet(patterns) == {patterns[i] : i \in 1..Len(patterns)}

Fragments ==
    PatternSet(mode_patterns) \cup PatternSet(state_patterns)
        \cup PatternSet(validation_patterns) \cup PatternSet(obsidian_patterns)
        \cup { <<"[", "d", "a", "t", "a", "-", "s", "u", "b", "p", "l", "o", "t", "-", "i", "d", "x">>,
               <<":", "h", "o", "v", "e", "r">>,
               <<".", "s", "c", "e", "n", "e", "-", "h", "o", "v", "e", "r">>,
               <<".", "r", "t", "-", "h", "o", "v", "e", "r">>,
               <<"d", "i", "v">>,
               <<" ">>,
               <<".", "R", "T", "-", "S", "E", "L", "E", "C", "T", "E", "D">> }

RECURSIVE Concat(_)
Concat(parts) == IF parts = <<>> THEN <<>> ELSE parts[1] \o Concat(Tail(parts))

SelectorInputs == {Concat(fs) : fs \in UNION {[1..k -> Fragments] : k \in 0..MaxFragments}}

InitCat ==
    /\ pc = "classify"
    /\ sel_in \in SelectorInputs
    /\ cat_out = NoCategory
    /\ css_files = <<>>
    /\ file_idx = 0
    /\ lines = <<>>
    /\ line_num = 0
    /\ current_selector = <<>>
    /\ brace_depth = 0
    /\ selector_start_line = 0
    /\ declarations = <<>>
    /\ all_declarations = <<>>
    /\ by_category = <<>>
    /\ console = <<>>
    /\ report_file = Absent
    /\ report_writes = 0

\* line 164: the call of categorize_selector
Classify ==
    /\ pc = "classify"
    /\ cat_out' = categorize_selector(sel_in, <<>>)
    /\ pc' = "classified"
    /\ UNCHANGED <<css_files, file_idx, parseVars, all_declarations, by_category, console,
                   report_file, report_writes, sel_in>>

NextCat == Classify

SpecCat == InitCat /\ [][NextCat]_vars

(***************************************************************************)
(* Properties.                                                             *)
(***************************************************************************)

\* the scan of the current file is complete
ScanComplete == pc \in {"parsing", "loop"} /\ file_idx > 0 /\ line_num = Len(lines) /\ lines # <<>>

\* the file whose only line is the rule of C1, without or with a final newline
C1_File(ls) == ls = <<L_rt_selected_rule>> \/ ls = <<L_rt_selected_rule, L_empty>>

\* '.rt-selected', 'color', 'red', 'padding', '0'
T_rt_selected == <<".", "r", "t", "-", "s", "e", "l", "e", "c", "t", "e", "d">>
T_color == <<"c", "o", "l", "o", "r">>
T_red == <<"r", "e", "d">>
T_padding == <<"p", "a", "d", "d", "i", "n", "g">>
T_zero == <<"0">>

\* C1: once the file whose only line is '.rt-selected { color: red!important; }' is
\* scanned, its records are exactly one record with property color, value red,
\* selector .rt-selected and category 4_selection_states.
C1_SameLineRule ==
    (ScanComplete /\ C1_File(lines)) =>
        /\ Len(declarations) = 1
        /\ declarations[1].property = T_color
        /\ declarations[1].value = T_red
        /\ declarations[1].selector = T_rt_selected
        /\ declarations[1].category = K_selection_states

\* C1: what the scan of that file yields: one record, color / red, with the
\* empty selector and category 7_other.
C1_Witness ==
    /\ ScanComplete /\ C1_File(lines)
    /\ Len(declarations) = 1
    /\ declarations[1].property = T_color
    /\ declarations[1].value = T_red
    /\ declarations[1].selector = <<>>
    /\ declarations[1].category = K_other

\* the file of C2
C2_File == <<L_modal_content, L_open_brace, L_padding, L_close_brace>>

\* C2: once the file '.modal-content', '{', '  padding: 0 !important;', '}' is scanned,
\* its records are exactly one record, with selector .modal-content and category
\* 1_obsidian_resets.
C2_SelectorOnFirstLine ==
    (ScanComplete /\ lines = C2_File) =>
        /\ Len(declarations) = 1
        /\ declarations[1].selector = L_modal_content
        /\ declarations[1].category = K_obsidian_resets

\* C2: what the scan of that file yields: one record on line 3, padding / 0, with the
\* empty selector and category 7_other.
C2_Witness ==
    /\ ScanComplete /\ lines = C2_File
    /\ Len(declarations) = 1
    /\ declarations[1].line_number = 3
    /\ declarations[1].property = T_padding
    /\ declarations[1].value = T_zero
    /\ declarations[1].selector = <<>>
    /\ declarations[1].category = K_other

\* the six tests of section 4.3 as a table, in evaluation order
C3_Table ==
    << [key |-> K_subplot_colors,
        patterns |-> { <<"[", "d", "a", "t", "a", "-", "s", "u", "b", "p", "l", "o", "t", "-", "i", "d", "x">> }],
       [key |-> K_mode_overrides, patterns |-> PatternSet(mode_patterns)],
       [key |-> K_selection_states, patterns |-> PatternSet(state_patterns)],
       [key |-> K_hover_states,
        patterns |-> { <<":", "h", "o", "v", "e", "r">>,
                       <<".", "s", "c", "e", "n", "e", "-", "h", "o", "v", "e", "r">>,
                       <<".", "r", "t", "-", "h", "o", "v", "e", "r">> }],
       [key |-> K_validation_states, patterns |-> PatternSet(validation_patterns)],
       [key |-> K_obsidian_resets, patterns |-> PatternSet(obsidian_patterns)] >>

\* the rows of the table with a fragment contained in the selector
C3_Hits(selector) ==
    {i \in 1..Len(C3_Table) : \E p \in C3_Table[i].patterns : Contains(selector, p)}

\* C3: categorize_selector returns, for every selector, exactly one of the seven
\* category keys: the key of the first row of the table (subplot colors, mode overrides,
\* selection states, hover states, validation states, host-application resets) that has
\* a fragment contained in the selector, and 7_other when no row has one.
C3_FirstMatchWins ==
    pc = "classified" =>
        /\ cat_out \in CategoryKeys
        /\ IF C3_Hits(sel_in) = {} THEN cat_out = K_other
           ELSE \E i \in C3_Hits(sel_in) :
                    /\ \A j \in C3_Hits(sel_in) : i <= j
                    /\ cat_out = C3_Table[i].key

\* C3: a selector with both a selection-state fragment and a hover fragment has been
\* classified, as selection state.
C3_Witness ==
    /\ pc = "classified"
    /\ {3, 4} \subseteq C3_Hits(sel_in)
    /\ cat_out = K_selection_states

\* every record, of the file in hand and of the collected list
AllRecords ==
    {declarations[i] : i \in 1..Len(declarations)}
        \cup {all_declarations[i] : i \in 1..Len(all_declarations)}

\* C4: every declaration record has a non-empty property and a non-empty value.
C4_NonEmptyFields == \A r \in AllRecords : r.property # <<>> /\ r.value # <<>>

\* C4: the line 'color: !important;' has given a record with property color and an
\* empty value.
C4_Witness ==
    \E r \in AllRecords :
        /\ lines[r.line_number] = L_color_blank
        /\ r.property = T_color
        /\ r.value = <<>>

\* C5: no exception escapes main when a style sheet cannot be read: the run does not
\* end in the open() of a file, and once a run is over the report has been written.
C5_UnreadableFileSkipped ==
    /\ pc # "raised"
    /\ (pc = "done" /\ file_idx > 0) => report_writes = 1

\* C5: a run ended by the exception of an unreadable file, after the records of an
\* earlier file were collected, with no report written.
C5_Witness ==
    /\ pc = "raised"
    /\ file_idx = 2
    /\ all_declarations # <<>>
    /\ report_file = Absent

\* the position of x in the sequence order
Pos(order, x) == CHOOSE i \in 1..Len(order) : order[i] = x

\* the elements of s appear in the order that the sequence order gives
InOrder(s, order) ==
    /\ \A i \in 1..Len(s) : \E k \in 1..Len(order) : order[k] = s[i]
    /\ \A i, j \in 1..Len(s) : i < j => Pos(order, s[i]) < Pos(order, s[j])

\* the category enumeration of section 4.3 of the specification
C6_Section43 ==
    <<K_subplot_colors, K_mode_overrides, K_selection_states, K_hover_states,
      K_validation_states, K_obsidian_resets, K_other>>

\* the category keys in ascending order
C6_Ascending ==
    <<K_obsidian_resets, K_validation_states, K_hover_states, K_selection_states,
      K_mode_overrides, K_subplot_colors, K_other>>

\* the keys of the report's by_category mapping, in the order of the mapping
ReportKeys == [i \in 1..Len(report_file.by_category) |-> report_file.by_category[i].key]

\* the blocks of one kind that main has printed, in print order
Blocks(kind) == SelectSeq(console, LAMBDA e : e[1] = kind)

\* the category names of the printed blocks of one kind, in print order
BlockNames(kind) == [i \in 1..Len(Blocks(kind)) |-> Blocks(kind)[i][2]]

\* the display names of a sequence of keys
NamesOf(keys) == [i \in 1..Len(keys) |-> CategoryName(keys[i])]

\* the categories of the summary, of the breakdown and of the report follow order
CategoriesFollow(order) ==
    /\ InOrder(BlockNames("summary_category"), NamesOf(order))
    /\ InOrder(BlockNames("detail_category"), NamesOf(order))
    /\ report_file # Absent => InOrder(ReportKeys, order)

\* C6 as stated: the categories of the summary, the breakdown and the report's
\* by_category appear in the enumeration order of section 4.3.
C6_Section43Order == CategoriesFollow(C6_Section43)

\* C6 amended: the categories that have records appear in ascending order of their
\* keys (1_obsidian_resets, 2_validation_states, 3_hover_states, 4_selection_states,
\* 5_mode_overrides, 6_subplot_colors, 7_other), whatever the order of discovery.
C6_AscendingKeyOrder ==
    /\ CategoriesFollow(C6_Ascending)
    /\ report_file # Absent =>
           {ReportKeys[i] : i \in 1..Len(ReportKeys)}
               = {all_declarations[i].category : i \in 1..Len(all_declarations)}

\* C6: a finished run that discovered two categories in an order other than the one it
\* printed and reported them in.
C6_Witness ==
    /\ pc = "done"
    /\ report_file # Absent
    /\ Len(by_category) = 2
    /\ Keys(by_category) # ReportKeys
    /\ Len(Blocks("detail_category")) = 2

RECURSIVE SumSeq(_)
SumSeq(s) == IF s = <<>> THEN 0 ELSE s[1] + SumSeq(Tail(s))

\* C7: total equals the sum of the counts of by_category; the count of each category
\* equals the number of its records over its files; and in the printed summary the
\* count of each category equals the sum of its per-file sub-counts and the printed
\* total equals the sum of the category counts.
C7_TotalsConsistent ==
    /\ report_file # Absent =>
           LET cats == report_file.by_category
           IN  /\ report_file.total = SumSeq([i \in 1..Len(cats) |-> cats[i].count])
               /\ \A i \in 1..Len(cats) :
                      cats[i].count =
                          SumSeq([j \in 1..Len(cats[i].files) |-> Len(cats[i].files[j].items)])
    /\ LET blocks == Blocks("summary_category")
       IN  /\ \A i \in 1..Len(blocks) :
                  blocks[i][3] = SumSeq([j \in 1..Len(blocks[i][4]) |-> blocks[i][4][j][2]])
           /\ Blocks("total") # <<>> /\ pc # "loop" =>
                  Blocks("total")[1][2] = SumSeq([i \in 1..Len(blocks) |-> blocks[i][3]])

\* C7: a report in which one category holds three or more records over two files.
C7_Witness ==
    /\ report_file # Absent
    /\ \E i \in 1..Len(report_file.by_category) :
           /\ Len(report_file.by_category[i].files) = 2
           /\ report_file.by_category[i].count >= 3
    /\ Blocks("summary_category") # <<>>

\* a is a prefix of b
IsPrefix(a, b) == Len(a) <= Len(b) /\ SubSeq(b, 1, Len(a)) = a

\* the records of s are in (file order, then line order), line numbers strictly increasing
C8_Ordered(s) ==
    \A i, j \in 1..Len(s) :
        i < j =>
            \/ Pos(css_files, s[i].file) < Pos(css_files, s[j].file)
            \/ s[i].file = s[j].file /\ s[i].line_number < s[j].line_number

\* C8: the files are taken in sorted order; the record list is in file order, then in
\* strictly increasing line order, and a step of the run only appends to it: the records already in it stay as they are,
\* where they are.
C8_FileThenLineOrder ==
    /\ [](/\ C8_Ordered(all_declarations)
          /\ C8_Ordered(declarations)
          /\ \A i, j \in 1..Len(css_files) : i < j => StrLess(css_files[i], css_files[j]))
    /\ [][/\ IsPrefix(all_declarations, all_declarations')
          /\ file_idx' = file_idx => IsPrefix(declarations, declarations')]_vars

\* C8: the collected list holds two records of one file followed by a record of the
\* next file.
C8_Witness ==
    /\ Len(all_declarations) >= 3
    /\ all_declarations[1].file = all_declarations[2].file
    /\ all_declarations[1].file # all_declarations[Len(all_declarations)].file

\* the line has the shape of a declaration: a letter or hyphen, blanks at most up to a
\* colon, at least one character, and the marker in any letter case
C9_HasShape(line) ==
    \E c \in 1..Len(line) :
        /\ line[c] = ":"
        /\ \E q \in 1..(c - 1) :
               /\ ToLower(line[q]) \in LowerCase \cup {"-"}
               /\ \A w \in (q + 1)..(c - 1) : line[w] \in Whitespace
        /\ \E m \in (c + 2)..Len(line) : MarkerAt(line, m)

\* C9: the records of a file are at most as many as its lines that contain the marker:
\* every record stands for a line that contains the marker and matches the declaration
\* shape, and no line has two records.
C9_AtMostOnePerMarkerLine ==
    /\ Len(declarations) <=
           Cardinality({i \in 1..line_num : Contains(lines[i], ImportantMarker)})
    /\ \A k \in 1..Len(declarations) :
           /\ declarations[k].line_number \in 1..line_num
           /\ Contains(lines[declarations[k].line_number], ImportantMarker)
           /\ C9_HasShape(lines[declarations[k].line_number])
    /\ \A k, m \in 1..Len(declarations) :
           k # m => declarations[k].line_number # declarations[m].line_number

\* C9: a scanned file of two lines with the marker, one of which does not match the
\* declaration shape, has one record.
C9_Witness ==
    /\ ScanComplete
    /\ Len(lines) = 2
    /\ \A i \in 1..2 : Contains(lines[i], ImportantMarker)
    /\ \E i \in 1..2 : ~C9_HasShape(lines[i])
    /\ Len(declarations) = 1

\* the run ended at the missing styles directory
DirMissing == pc = "done" /\ file_idx = 0 /\ Blocks("error_styles_directory_not_found") # <<>>

\* the run is over and the styles directory existed
RunOverWithDir == pc \in {"done", "raised"} /\ Blocks("scanning") # <<>>

\* C10: when the styles directory is missing the run prints the error, scans no file
\* and leaves the report file as it was; when the directory exists the report file is
\* written exactly once, after all files are scanned.
C10_ReportWrittenOnce ==
    /\ DirMissing => report_writes = 0 /\ report_file = Absent /\ lines = <<>>
    /\ report_writes > 0 => file_idx = Len(css_files) /\ line_num = Len(lines)
    /\ RunOverWithDir => report_writes = 1

\* C10: a run over an existing directory that ended without writing the report.
C10_Witness ==
    /\ RunOverWithDir
    /\ report_writes = 0
    /\ report_file = Absent

(***************************************************************************)
(* Runs over structured files: a selector or a rule, then a gap of empty   *)
(* lines, then the line that looks back; some empty lines may lead.        *)
(***************************************************************************)

\* the most empty lines at the head of a structured file
MaxLead == 2

\* the most empty lines between the line looked for and the line that looks back
MaxGap == 19

\* n empty lines
Fill(n) == [i \in 1..n |-> L_empty]

\* a selector on its own line, a gap, then the brace, a declaration and the closing brace
BraceAloneFiles ==
    {Fill(p) \o <<L_modal_content>> \o Fill(g) \o <<L_open_brace, L_padding, L_close_brace>> :
        p \in 0..MaxLead, g \in 0..MaxGap}

\* a rule opened and closed, a gap, then a declaration outside every block
StrayDeclarationFiles ==
    {Fill(p) \o <<L_rt_selected_open, L_close_brace>> \o Fill(g) \o <<L_padding>> :
        p \in 0..MaxLead, g \in 0..MaxGap}

\* a rule on one line, with and without a colon in its selector
OneLineRuleFiles ==
    {Fill(p) \o <<l>> : p \in 0..MaxLead, l \in {L_hover_rule, L_rt_selected_rule}}

StructuredTexts ==
    {JoinLines(ls) : ls \in BraceAloneFiles \cup StrayDeclarationFiles \cup OneLineRuleFiles}

NextStructured ==
    \/ Main_DirMissing
    \/ Main_ListFiles(ScenarioFileNames)
    \/ Parse_Open(StructuredTexts)
    \/ Parse_OpenFails
    \/ Parse_Line
    \/ Parse_Return
    \/ Main_Group
    \/ Main_WriteReport
    \/ Main_Breakdown

SpecStructured == Init /\ [][NextStructured]_vars

\* the step consumes line n of the file in hand
ConsumesLine(n) == pc = "parsing" /\ lines' = lines /\ line_num' = n /\ n = line_num + 1

\* the selector is cleared at the end of line n: the depth is back at zero on a line
\* with a closing brace
ClearedAt(n) == brace_depth' = 0 /\ Count(lines[n], "}") > 0

\* the lines among the 9 before line n that can be a selector: not empty, not a
\* comment line, without a brace
C11_Candidates(n) ==
    {k \in Max(1, n - 9)..(n - 1) :
        LET t == Strip(lines[k])
        IN  /\ t # <<>>
            /\ ~StartsWith(t, <<"/", "*">>) /\ ~StartsWith(t, <<"*">>)
            /\ ~Contains(t, <<"{">>) /\ ~Contains(t, <<"}">>)}

\* C11: a line whose first character is '{', met at depth zero, makes the nearest of
\* the 9 lines before it that is not empty, not a comment line and without a brace
\* the current selector, wherever the line sits in the file; met at another depth, or
\* with no such line before it, it leaves the current selector as it was.
C11_LookBackNine ==
    [][\A n \in 1..Len(lines) :
          (ConsumesLine(n) /\ lines[n] # <<>> /\ lines[n][1] = "{") =>
              LET cands    == C11_Candidates(n)
                  expected == IF brace_depth = 0 /\ cands # {}
                              THEN Strip(lines[CHOOSE k \in cands : \A j \in cands : j <= k])
                              ELSE current_selector
              IN  current_selector' = IF ClearedAt(n) THEN <<>> ELSE expected]_vars

\* C11: a brace line far from the head of the file (line 11 or later), met at depth
\* zero, with the selector on the ninth line before it, a line that is not the first
\* of the file, and only empty lines between: the current selector stays empty.
C11_Witness ==
    /\ pc = "parsing"
    /\ line_num >= 11
    /\ lines[line_num] = L_open_brace
    /\ brace_depth = 1
    /\ line_num - 9 > 1
    /\ lines[line_num - 9] = L_modal_content
    /\ \A k \in (line_num - 8)..(line_num - 1) : lines[k] = L_empty
    /\ current_selector = <<>>

\* the lines among the 19 before line n that contain '{'
C12_Candidates(n) == {k \in Max(1, n - 19)..(n - 1) : Contains(lines[k], <<"{">>)}

\* the text before the brace of a line: before its last character when the line ends
\* with '{', before its first '{' otherwise
C12_BeforeBrace(line) ==
    LET prev == Strip(line)
    IN  IF EndsWith(prev, <<"{">>) THEN Strip(Prefix(prev, Len(prev) - 1))
        ELSE Strip(Prefix(prev, Find(prev, "{")))

\* C12: a line that matches the declaration shape while the tracker's current selector
\* is empty gives a record whose selector is the text before the brace of the nearest
\* of the 19 lines before it that contains '{', and the empty selector when none of
\* them contains '{'.
C12_FallbackNineteen ==
    [][\A n \in 1..Len(lines) :
          (/\ ConsumesLine(n)
           /\ Contains(lines[n], ImportantMarker)
           /\ C9_HasShape(lines[n])
           /\ current_selector' = <<>>) =>
              LET cands == C12_Candidates(n)
              IN  /\ Len(declarations') = Len(declarations) + 1
                  /\ declarations'[Len(declarations')].line_number = n
                  /\ declarations'[Len(declarations')].selector =
                         IF cands = {} THEN <<>>
                         ELSE C12_BeforeBrace(lines[CHOOSE k \in cands : \A j \in cands : j <= k])]_vars

\* C12: a declaration far from the head of the file (line 21 or later), outside every
\* block, with '.rt-selected {' on the nineteenth line before it, a line that is not
\* the first of the file, and no other '{' between: its record has the empty selector.
C12_Witness ==
    /\ pc = "parsing"
    /\ line_num >= 21
    /\ lines[line_num] = L_padding
    /\ current_selector = <<>>
    /\ line_num - 19 > 1
    /\ lines[line_num - 19] = L_rt_selected_open
    /\ \A k \in (line_num - 18)..(line_num - 1) : ~Contains(lines[k], <<"{">>)
    /\ declarations # <<>>
    /\ declarations[Len(declarations)].line_number = line_num
    /\ declarations[Len(declarations)].selector = <<>>

\* where the marker stands on the line: the position of its first occurrence
C13_MarkerPos(line) ==
    CHOOSE m \in 1..Len(line) :
        /\ SubSeq(line, m, m + Len(ImportantMarker) - 1) = ImportantMarker
        /\ \A j \in 1..(m - 1) : SubSeq(line, j, j + Len(ImportantMarker) - 1) # ImportantMarker

\* the colon of the declaration that carries the marker: the last one before the marker
C13_ColonPos(line) ==
    CHOOSE c \in 1..(C13_MarkerPos(line) - 1) :
        /\ line[c] = ":"
        /\ \A j \in (c + 1)..(C13_MarkerPos(line) - 1) : line[j] # ":"

\* the token of letters and hyphens directly before that colon
C13_Property(line) ==
    LET c    == C13_ColonPos(line)
        ends == {q \in 1..(c - 1) : line[q] \notin Whitespace}
        last == CHOOSE q \in ends : \A j \in ends : j <= q
        from == CHOOSE q \in 1..last :
                    /\ \A j \in q..last : ToLower(line[j]) \in LowerCase \cup {"-"}
                    /\ q = 1 \/ ToLower(line[q - 1]) \notin LowerCase \cup {"-"}
    IN  SubSeq(line, from, last)

\* the value text of that declaration: from the colon to the marker, without the
\* blanks around it and without the statement terminator
C13_Value(line) ==
    Strip(RStripChar(Strip(SubSeq(line, C13_ColonPos(line) + 1, C13_MarkerPos(line) - 1)), ";"))

\* C13: the property of every record is the token of letters and hyphens directly
\* before the colon of the declaration that carries the marker on the record's line,
\* and its value is the value text of that declaration, also when selector text with a
\* colon stands before the declaration on the same line.
C13_PropertyOfMarkedDeclaration ==
    \A k \in 1..Len(declarations) :
        LET line == lines[declarations[k].line_number]
        IN  /\ declarations[k].property = C13_Property(line)
            /\ declarations[k].value = C13_Value(line)

\* 'a', 'hover { color: red'
T_a == <<"a">>
T_hover_to_red ==
    <<"h", "o", "v", "e", "r", " ", "{", " ", "c", "o", "l", "o", "r", ":", " ", "r", "e", "d">>

\* C13: the line 'a:hover { color: red !important; }' has given a record with property
\* a and value 'hover { color: red'.
C13_Witness ==
    /\ ScanComplete
    /\ declarations # <<>>
    /\ lines[declarations[1].line_number] = L_hover_rule
    /\ declarations[1].property = T_a
    /\ declarations[1].value = T_hover_to_red
====
